---- MODULE Spec2Model ----
(***************************************************************************)
(* Blood-donation event engine: the Event model (status resolver, pre-save *)
(* hook, isFull) and the event controller (create / read / update /        *)
(* cancel / delete / register / cancel-registration).                      *)
(*                                                                         *)
(* Time is a naive local time axis counted in milliseconds from 00:00 of   *)
(* day 0.  A time text is the sequence of its "-"-separated segments; a    *)
(* segment records what the parsers read from it: the number of            *)
(* whitespace-separated tokens, parseInt of the hour piece, the minute     *)
(* piece and the marker token.                                             *)
(*                                                                         *)
(* The profile controller's summary cache (part_002) is the variable       *)
(* cache, a map from <<role, user>> keys to a summary and the instant it   *)
(* was inserted; profiles holds the users' profile documents.              *)
(*                                                                         *)
(* Requests are served one at a time except in the interleaved             *)
(* specifications, where a handler is split at its awaits: inflight holds, *)
(* per user, the request that has loaded its documents and not yet saved.  *)
(***************************************************************************)
EXTENDS Integers, Sequences, FiniteSets, TLC

VARIABLES events, now, nextId, last, profiles, cache, inflight

vars == <<events, now, nextId, last, profiles, cache, inflight>>

\* ------------------------------------------------------------------ bounds
\* events ever created in the registration / lifecycle specification
MaxEvents == 1
\* events ever created in the title specification
MaxTitleEvents == 2
\* cache lifetimes the profile specification's clock runs through
MaxTtlPeriods == 1
\* blanks of padding before, inside and after a written time
MaxPad == 1
\* last calendar day of the resolver's inputs
MaxDay == 2

\* --------------------------------------------------------------- time axis
MsPerMinute == 60 * 1000
MsPerHour == 60 * MsPerMinute
MsPerDay == 24 * MsPerHour

\* A Date that is absent (undefined / null), and a parser's null.
NoDate == 0 - 1
Null == 0 - 1
\* parseInt results: NaN, and the two ways a minute piece can be missing
\* ("9 AM": no ":" at all; "9: AM": an empty piece after the ":").
NaN == 0 - 1
Absent == 0 - 2
Empty == 0 - 3

DayStart(t) == (t \div MsPerDay) * MsPerDay

\* Date.prototype.setHours(h, m, s, ms) on a copy of date t (local time;
\* out-of-range hours roll over into the following days).
setHours(t, h, m, s, ms) ==
    DayStart(t) + h * MsPerHour + m * MsPerMinute + s * 1000 + ms

\* ---------------------------------------------------------------- time text
Seg(h, m, mod) == [ntok |-> 2, hours |-> h, minutes |-> m, modifier |-> mod]
\* "" or only whitespace
BlankSeg == [ntok |-> 0, hours |-> NaN, minutes |-> Absent, modifier |-> ""]
\* one token, e.g. "9:00AM" or "noon"
OneTokenSeg == [ntok |-> 1, hours |-> 9, minutes |-> 0, modifier |-> ""]
\* segments[1] of a text without "-"
NoSeg == [ntok |-> 0 - 1, hours |-> NaN, minutes |-> Absent, modifier |-> ""]
\* an absent / empty time text
NoText == << >>

toUpperCase_asWritten(s) == s

toUpperCase(s) ==
    CASE s = "am" -> "AM"
      [] s = "pm" -> "PM"
      [] s = "Am" -> "AM"
      [] s = "Pm" -> "PM"
      [] s = "aM" -> "AM"
      [] s = "pM" -> "PM"
      [] OTHER -> s

SegAt(text, i) == IF i <= Len(text) THEN text[i] ELSE NoSeg

\* ------------------------------------------------- Event model (part_006)
\* parseTimePortion inside updateStatus: a Date or null (NoDate).
parseTimePortion(baseDate, raw) ==
    IF raw.ntok < 2
    THEN NoDate
    ELSE LET hours0 == raw.hours
             minutes == IF raw.minutes \in {Absent, Empty} THEN 0 ELSE raw.minutes
             modifier == toUpperCase(raw.modifier)
         IN IF hours0 = NaN \/ minutes = NaN
            THEN NoDate
            ELSE LET h1 == IF modifier = "PM" /\ hours0 < 12 THEN hours0 + 12 ELSE hours0
                     h2 == IF modifier = "AM" /\ h1 = 12 THEN 0 ELSE h1
                 IN setHours(baseDate, h2, minutes, 0, 0)

\* this.eventTime is a string with trim().length > 0
HasTimeText(text) == ~(Len(text) = 0 \/ (Len(text) = 1 /\ text[1].ntok = 0))

StartDateTime(e) ==
    IF HasTimeText(e.eventTime)
    THEN parseTimePortion(e.eventDate, SegAt(e.eventTime, 1))
    ELSE NoDate

EndOfEvent(e) == IF e.endDate # NoDate THEN e.endDate ELSE e.eventDate

EndDateTime(e) ==
    LET end0 == IF HasTimeText(e.eventTime)
                THEN parseTimePortion(EndOfEvent(e), SegAt(e.eventTime, 2))
                ELSE NoDate
        start0 == StartDateTime(e)
    IN IF start0 # NoDate /\ end0 # NoDate /\ end0 <= start0
       THEN end0 + MsPerDay
       ELSE end0

\* The midnight roll-over of lines 187-190 is part of EndDateTime above.

\* lines 202-208: the three-way comparison against the effective window
WindowStatus_exclusiveEnd(effectiveStart, effectiveEnd, t) ==
    IF t < effectiveStart THEN "upcoming"
    ELSE IF t >= effectiveStart /\ t < effectiveEnd THEN "ongoing"
    ELSE "completed"

WindowStatus(effectiveStart, effectiveEnd, t) ==
    IF t < effectiveStart THEN "upcoming"
    ELSE IF t >= effectiveStart /\ t <= effectiveEnd THEN "ongoing"
    ELSE "completed"

\* lines 213-228: fallback when no time information could be parsed
FallbackStatus(e, t) ==
    LET startDay == setHours(e.eventDate, 0, 0, 0, 0)
        endDay == setHours(EndOfEvent(e), 23, 59, 59, 999)
    IN IF t < startDay THEN "upcoming"
       ELSE IF t > endDay THEN "completed"
       ELSE "ongoing"

\* lines 179-229: the status of an event that is not cancelled
ResolveStatus(e, t) ==
    LET s == StartDateTime(e)
        f == EndDateTime(e)
    IN IF s # NoDate \/ f # NoDate
       THEN LET effectiveStart == IF s # NoDate THEN s ELSE e.eventDate
                effectiveEnd == IF f # NoDate THEN f
                                ELSE setHours(EndOfEvent(e), 23, 59, 59, 999)
            IN WindowStatus(effectiveStart, effectiveEnd, t)
       ELSE FallbackStatus(e, t)

updateStatus_ignoresCancelled(e, t) == ResolveStatus(e, t)

\* eventSchema.methods.updateStatus: the status the method stores and returns.
updateStatus(e, t) ==
    IF e.status = "cancelled" THEN e.status ELSE ResolveStatus(e, t)

\* eventSchema.virtual("isFull")
isFull(e) == e.currentAttendees >= e.expectedCapacity

IsActiveAttendee(a) == a.status = "registered" \/ a.status = "attended"

ActiveCount(attendees) ==
    Cardinality({i \in 1..Len(attendees) : IsActiveAttendee(attendees[i])})

preSave_keepsCount(e) ==
    [e EXCEPT !.endDate = IF e.endDate = NoDate THEN e.eventDate ELSE e.endDate]

\* eventSchema.pre("save"): endDate defaults to eventDate, currentAttendees
\* is recomputed from the roster.
preSave(e) ==
    [e EXCEPT !.endDate = IF e.endDate = NoDate THEN e.eventDate ELSE e.endDate,
              !.currentAttendees = ActiveCount(e.attendees)]

\* ------------------------------------------- controller parsers (lines 4-58)
\* parseTimeStringToMinutes: minutes since midnight, or null.
parseTimeStringToMinutes(raw) ==
    IF raw.ntok < 2
    THEN Null
    ELSE LET hours0 == raw.hours
             minutes == IF raw.minutes = Absent THEN 0
                        ELSE IF raw.minutes = Empty THEN NaN
                        ELSE raw.minutes
             modifier == toUpperCase(raw.modifier)
         IN IF hours0 = NaN \/ minutes = NaN
            THEN Null
            ELSE LET h1 == IF modifier = "PM" /\ hours0 < 12 THEN hours0 + 12 ELSE hours0
                     h2 == IF modifier = "AM" /\ h1 = 12 THEN 0 ELSE h1
                 IN h2 * 60 + minutes

\* parseEventTimeRange: {startMinutes, endMinutes}, or null (a record whose
\* ok field is FALSE).
parseEventTimeRange(text) ==
    IF Len(text) # 2
    THEN [ok |-> FALSE, startMinutes |-> Null, endMinutes |-> Null]
    ELSE LET sm == parseTimeStringToMinutes(text[1])
             em == parseTimeStringToMinutes(text[2])
         IN IF sm = Null \/ em = Null
            THEN [ok |-> FALSE, startMinutes |-> Null, endMinutes |-> Null]
            ELSE [ok |-> TRUE, startMinutes |-> sm, endMinutes |-> em]

\* ------------------------------------------------ reading the raw text
\* A raw time string is a sequence of one-character strings.  The functions
\* below are the string operations of parseTimeStringToMinutes (lines 9-22)
\* and parseEventTimeRange (line 45); SegOfChars is the segment they read.
IsSpace(c) == c \in {" ", "\t"}
Digits == <<"0", "1", "2", "3", "4", "5", "6", "7", "8", "9">>
IsDigit(c) == \E d \in 1..10 : Digits[d] = c
DigitValue(c) == (CHOOSE d \in 1..10 : Digits[d] = c) - 1

RECURSIVE trimStart(_)
trimStart(cs) ==
    IF Len(cs) > 0 /\ IsSpace(cs[1]) THEN trimStart(Tail(cs)) ELSE cs

RECURSIVE trimEnd(_)
trimEnd(cs) ==
    IF Len(cs) > 0 /\ IsSpace(cs[Len(cs)])
    THEN trimEnd(SubSeq(cs, 1, Len(cs) - 1)) ELSE cs

\* String.prototype.trim
trimChars(cs) == trimEnd(trimStart(cs))

\* String.prototype.split(separator) for a one-character separator
RECURSIVE splitOn(_, _)
splitOn(cs, sep) ==
    IF \A i \in 1..Len(cs) : cs[i] # sep
    THEN << cs >>
    ELSE LET k == CHOOSE i \in 1..Len(cs) :
                      cs[i] = sep /\ \A j \in 1..(i - 1) : cs[j] # sep
         IN << SubSeq(cs, 1, k - 1) >> \o splitOn(SubSeq(cs, k + 1, Len(cs)), sep)

\* trimmed.split(/\s+/) on a trimmed, non-empty string
RECURSIVE splitWhitespace(_)
splitWhitespace(cs) ==
    IF \A i \in 1..Len(cs) : ~IsSpace(cs[i])
    THEN << cs >>
    ELSE LET k == CHOOSE i \in 1..Len(cs) :
                      IsSpace(cs[i]) /\ \A j \in 1..(i - 1) : ~IsSpace(cs[j])
         IN << SubSeq(cs, 1, k - 1) >>
                \o splitWhitespace(trimStart(SubSeq(cs, k + 1, Len(cs))))

RECURSIVE digitsValue(_, _)
digitsValue(cs, acc) ==
    IF Len(cs) > 0 /\ IsDigit(cs[1])
    THEN digitsValue(Tail(cs), acc * 10 + DigitValue(cs[1]))
    ELSE acc

\* parseInt(text, 10) of a text without a "-" sign: leading blanks and a "+"
\* are skipped, the leading digits are read, anything after them is ignored.
parseInt(cs) ==
    LET s0 == trimStart(cs)
        s == IF Len(s0) > 0 /\ s0[1] = "+" THEN Tail(s0) ELSE s0
    IN IF Len(s) = 0 \/ ~IsDigit(s[1]) THEN NaN ELSE digitsValue(s, 0)

\* The spellings of a marker token, and the token "XM" that is no marker.
MarkerSpellings == {"AM", "Am", "aM", "am", "PM", "Pm", "pM", "pm", "XM"}

Spell(s) ==
    CASE s = "AM" -> <<"A", "M">> [] s = "Am" -> <<"A", "m">>
      [] s = "aM" -> <<"a", "M">> [] s = "am" -> <<"a", "m">>
      [] s = "PM" -> <<"P", "M">> [] s = "Pm" -> <<"P", "m">>
      [] s = "pM" -> <<"p", "M">> [] s = "pm" -> <<"p", "m">>
      [] s = "XM" -> <<"X", "M">>
      [] OTHER -> << >>

\* The second token as the string it spells ("?" for any other token).
MarkerOf(tok) ==
    IF \E s \in MarkerSpellings : Spell(s) = tok
    THEN CHOOSE s \in MarkerSpellings : Spell(s) = tok
    ELSE "?"

\* What lines 9-23 read from one side of the range.
SegOfChars(cs) ==
    LET trimmed == trimChars(cs)
    IN IF Len(trimmed) = 0
       THEN BlankSeg
       ELSE LET toks == splitWhitespace(trimmed)
                pieces == splitOn(toks[1], ":")
            IN [ntok |-> Len(toks),
                hours |-> parseInt(pieces[1]),
                minutes |-> IF Len(pieces) < 2 THEN Absent
                            ELSE IF Len(pieces[2]) = 0 THEN Empty
                            ELSE parseInt(pieces[2]),
                modifier |-> IF Len(toks) >= 2 THEN MarkerOf(toks[2]) ELSE ""]

\* eventTime.split("-"), each part read as above
SegsOfChars(cs) ==
    LET parts == splitOn(cs, "-")
    IN [i \in 1..Len(parts) |-> SegOfChars(parts[i])]

\* -------------------------------------------------------------- documents
Day(d) == d * MsPerDay
At(d, h, m) == Day(d) + h * MsPerHour + m * MsPerMinute

\* "9:00 AM - 5:00 PM"
DayShift == << Seg(9, 0, "AM"), Seg(5, 0, "PM") >>
\* "10:00 pm - 2 am"
NightShift == << Seg(10, 0, "pm"), Seg(2, Absent, "am") >>

\* A request body of createEvent / updateEvent.  An absent field is "", NoDate,
\* NoText, 0 or hasBloodTypes = FALSE; rest stands for the remaining required
\* fields (organizationName, location, eventDescription, contactEmail,
\* contactPhone) being present.
Req(title, start, end, text, cap, hasBlood, blood, rest) ==
    [eventTitle |-> title, startDate |-> start, endDate |-> end, eventTime |-> text,
     expectedCapacity |-> cap, hasBloodTypes |-> hasBlood, bloodTypesNeeded |-> blood,
     rest |-> rest]

NoReq == Req("", NoDate, NoDate, NoText, 0, FALSE, << >>, FALSE)

\* The last request served and the response it got; returned is the set of
\* events a read sent back.
NoOp == [op |-> "none", user |-> "", id |-> 0, req |-> NoReq, result |-> "",
         returned |-> {}]
Done(op, user, id, req, result) ==
    [op |-> op, user |-> user, id |-> id, req |-> req, result |-> result,
     returned |-> {}]
Read(op, user, id, returned) ==
    [op |-> op, user |-> user, id |-> id, req |-> NoReq, result |-> "ok",
     returned |-> returned]

\* A document of the events collection (the fields the engine reads).
EventDoc(org, title, start, end, text, cap, blood) ==
    [organizer |-> org, eventTitle |-> title, eventDate |-> start, endDate |-> end,
     eventTime |-> text, expectedCapacity |-> cap, currentAttendees |-> 0,
     bloodTypesNeeded |-> blood, status |-> "upcoming", attendees |-> << >>]

\* ------------------------------------------------------------------ users
Organizers == {"org1", "org2"}
Donors == {"donor1", "donor2"}
Role(u) == IF u \in Organizers THEN "organizer" ELSE "donor"

BloodTypes == {"O+", "O-", "A+", "A-", "B+", "B-", "AB+", "AB-"}

\* new Date(<text that is no date>)
InvalidDate == 0 - 2

\* A document of the users collection as registration leaves it (the fields
\* the profile controller reads): "" is an absent field.
UserDoc(u) ==
    [fullName |-> "Alex", email |-> u, phone |-> "", bloodType |-> "",
     organization |-> "", memberSince |-> "", hasLocation |-> FALSE,
     profilePicture |-> "", isProfileComplete |-> FALSE, totalDonations |-> 0]

InitialUsers == [u \in Organizers \cup Donors |-> UserDoc(u)]

\* ------------------------------------------- the status resolver on its own
\* Segments and texts the resolver is evaluated on: valid ones in several
\* spellings, and the malformed shapes each parser has a branch for.
ResolverSegs ==
    { Seg(9, 0, "AM"), Seg(5, 0, "PM"), Seg(10, 0, "pm"), Seg(2, Absent, "am"),
      Seg(12, 0, "AM"), Seg(12, 30, "PM"), Seg(9, Empty, "AM"), Seg(NaN, 0, "PM"),
      Seg(9, NaN, "AM"), OneTokenSeg, BlankSeg }

ResolverTexts ==
    { <<a, b>> : a \in ResolverSegs, b \in ResolverSegs }
    \cup { NoText, << BlankSeg >>, << Seg(9, 0, "AM") >>,
           << Seg(9, 0, "AM"), Seg(5, 0, "PM"), Seg(7, 0, "PM") >> }

ResolverStartDates == { Day(1), At(1, 5, 45) }
ResolverEndDates == { NoDate } \cup { Day(d) : d \in 1..MaxDay }

\* Instants around every boundary a resolver can compare against.
ResolverClock ==
    { At(d, h, m) + delta : d \in 0..(MaxDay + 1), h \in {0, 2, 9, 17, 22},
                            m \in {0}, delta \in {0 - 1, 0, 1} }
    \cup { At(1, 5, 45), At(1, 12, 30) }

InitResolver ==
    /\ \E start \in ResolverStartDates, end \in ResolverEndDates,
          text \in ResolverTexts, st \in {"upcoming", "ongoing", "completed", "cancelled"} :
          events = [i \in {1} |->
                      [EventDoc("org1", "Drive", start, end, text, 1, <<"O+">>)
                          EXCEPT !.status = st]]
    /\ now \in {t \in ResolverClock : t >= 0}
    /\ nextId = 2
    /\ last = NoOp
    /\ profiles = InitialUsers
    /\ cache = << >>
    /\ inflight = << >>

\* event.updateStatus() on the loaded document.
Evaluate(id) ==
    /\ id \in DOMAIN events
    /\ events' = [events EXCEPT ![id].status = updateStatus(events[id], now)]
    /\ last' = Done("updateStatus", "", id, NoReq, updateStatus(events[id], now))
    /\ UNCHANGED <<now, nextId, profiles, cache, inflight>>

NextResolver == \E id \in {1} : Evaluate(id)

SpecResolver == InitResolver /\ [][NextResolver]_vars

\* ----------------------------------------------- the range parser on its own
\* Written times: a numeric hour, optional two-digit minutes, a marker token
\* in any letter case, with blanks before, between and after.
Blanks(k) == [i \in 1..k |-> " "]

RECURSIVE Decimal(_)
Decimal(n) ==
    IF n < 10 THEN << Digits[n + 1] >>
    ELSE Decimal(n \div 10) \o << Digits[(n % 10) + 1] >>

TwoDigits(n) == << Digits[(n \div 10) + 1], Digits[(n % 10) + 1] >>

Written(seg, lead, mid, trail) ==
    Blanks(lead) \o Decimal(seg.hours)
        \o (IF seg.minutes = Absent THEN << >> ELSE <<":">> \o TwoDigits(seg.minutes))
        \o Blanks(mid) \o Spell(seg.modifier) \o Blanks(trail)

WrittenHours == (0..13) \cup {23, 24, 25}
WrittenMinutes == {Absent, 0, 5, 59, 60, 75}
WrittenStarts ==
    { Seg(h, m, mod) : h \in WrittenHours, m \in WrittenMinutes, mod \in MarkerSpellings }
WrittenEnds == { Seg(11, 59, "PM"), Seg(12, Absent, "am") }

\* The stored document records what was written; the request carries the
\* raw text, a sequence of characters.
InitParser ==
    /\ \E a \in WrittenStarts, b \in WrittenEnds,
          lead \in 0..MaxPad, mid \in 1..(MaxPad + 1), trail \in 0..MaxPad :
          /\ events = [i \in {1} |->
                         EventDoc("org1", "Drive", Day(1), NoDate, <<a, b>>, 1, <<"O+">>)]
          /\ last = Done("input", "", 1,
                         [NoReq EXCEPT !.eventTime =
                              Written(a, lead, mid, trail) \o <<"-">>
                                  \o Written(b, trail, mid, lead)],
                         "")
    /\ now = At(0, 8, 0)
    /\ nextId = 2
    /\ profiles = InitialUsers
    /\ cache = << >>
    /\ inflight = << >>

\* parseEventTimeRange(eventTime) on the raw text of the request.
ParseEventTime ==
    /\ last.op = "input"
    /\ last' = Done("parseEventTimeRange", "", last.id, last.req,
                    parseEventTimeRange(SegsOfChars(last.req.eventTime)))
    /\ UNCHANGED <<events, now, nextId, profiles, cache, inflight>>

NextParser == ParseEventTime

SpecParser == InitParser /\ [][NextParser]_vars

\* ----------------------------------------------------------------- titles
\* String.prototype.trim and case folding on the titles in use.
trim(title) ==
    CASE title = " drive " -> "drive"
      [] OTHER -> title

lowerCase(title) ==
    CASE title = "Drive" -> "drive"
      [] title = "DRIVE" -> "drive"
      [] title = "Camp" -> "camp"
      [] OTHER -> title

\* createEvent lines 119-126: the stored title matches
\* /^<escaped trimmed title>$/i
titleMatches(stored, requested) == lowerCase(stored) = lowerCase(trim(requested))

\* lines 128-131, on the documents the query returned
hasActiveDuplicate_storedStatus(evs, title, t) ==
    \E id \in DOMAIN evs :
        /\ titleMatches(evs[id].eventTitle, title)
        /\ evs[id].status \in {"upcoming", "ongoing"}

hasActiveDuplicate(evs, title, t) ==
    \E id \in DOMAIN evs :
        /\ titleMatches(evs[id].eventTitle, title)
        /\ updateStatus(evs[id], t) \in {"upcoming", "ongoing"}

Validates_anyCapacity(e) ==
    /\ \A i \in 1..Len(e.bloodTypesNeeded) : e.bloodTypesNeeded[i] \in BloodTypes
    /\ e.eventDate >= 0
    /\ e.endDate >= 0 \/ e.endDate = NoDate
    /\ e.eventTitle # ""

\* Mongoose validation on save: expectedCapacity min 1, blood-type enum,
\* dates that cast.
Validates(e) ==
    /\ e.expectedCapacity >= 1
    /\ \A i \in 1..Len(e.bloodTypesNeeded) : e.bloodTypesNeeded[i] \in BloodTypes
    /\ e.eventDate >= 0
    /\ e.endDate >= 0 \/ e.endDate = NoDate
    /\ e.eventTitle # ""

\* document.save(): the pre-save hook, then the write.
save(evs, id, e) == [i \in DOMAIN evs \cup {id} |-> IF i = id THEN preSave(e) ELSE evs[i]]

\* --------------------------------------------------------------- createEvent
CreateEndDate(r) == IF r.endDate # NoDate THEN r.endDate ELSE r.startDate

createResult(u, r, evs, t) ==
    LET start == r.startDate
        end == CreateEndDate(r)
        range == parseEventTimeRange(r.eventTime)
        startOk == start >= 0
        endOk == end >= 0
    IN IF Role(u) # "organizer" THEN "forbidden"
       ELSE IF \/ r.eventTitle = ""
               \/ start = NoDate
               \/ r.eventTime = NoText
               \/ r.expectedCapacity = 0
               \/ ~r.hasBloodTypes
               \/ ~r.rest
            THEN "missing"
       ELSE IF Len(r.bloodTypesNeeded) = 0 THEN "noBloodType"
       ELSE IF hasActiveDuplicate(evs, r.eventTitle, t) THEN "duplicate"
       ELSE IF startOk /\ DayStart(start) < DayStart(t) THEN "pastDate"
       ELSE IF startOk /\ endOk /\ DayStart(end) < DayStart(start) THEN "endBeforeStart"
       ELSE IF ~range.ok THEN "badTime"
       ELSE IF /\ startOk /\ endOk
               /\ DayStart(end) = DayStart(start)
               /\ range.endMinutes <= range.startMinutes
            THEN "endTimeNotAfter"
       ELSE IF ~Validates(EventDoc(u, trim(r.eventTitle), start, end, r.eventTime,
                                   r.expectedCapacity, r.bloodTypesNeeded))
            THEN "error"
       ELSE "created"

CreateEvent(u, r, limit) ==
    LET res == createResult(u, r, events, now)
        doc == EventDoc(u, trim(r.eventTitle), r.startDate, CreateEndDate(r), r.eventTime,
                        r.expectedCapacity, r.bloodTypesNeeded)
    IN /\ res = "created" => nextId <= limit
       /\ IF res = "created"
          THEN /\ events' = save(events, nextId, doc)
               /\ nextId' = nextId + 1
               /\ last' = Done("createEvent", u, nextId, r, res)
          ELSE /\ UNCHANGED <<events, nextId>>
               /\ last' = Done("createEvent", u, 0, r, res)
       /\ UNCHANGED <<now, profiles, cache, inflight>>

\* -------------------------------------------------------------------- reads
refreshed_notSaved(e, t) == e

\* lines 333-340 and 374-382: refresh one returned document, saving it only
\* when the status changed.
refreshed(e, t) ==
    IF updateStatus(e, t) # e.status
    THEN preSave([e EXCEPT !.status = updateStatus(e, t)])
    ELSE e

\* getAllEvents with its status filter ("" is no filter).
matchesQuery(e, filter) ==
    IF filter = "" THEN e.status # "cancelled"
    ELSE IF filter = "active" THEN e.status \in {"upcoming", "ongoing"}
    ELSE e.status = filter

GetAllEvents(filter) ==
    /\ events' = [id \in DOMAIN events |->
                    IF matchesQuery(events[id], filter)
                    THEN refreshed(events[id], now) ELSE events[id]]
    /\ last' = Read("getAllEvents", "", 0,
                     {id \in DOMAIN events : matchesQuery(events[id], filter)})
    /\ UNCHANGED <<now, nextId, profiles, cache, inflight>>

GetMyEvents(u) ==
    /\ IF Role(u) # "organizer"
       THEN /\ UNCHANGED events
            /\ last' = Done("getMyEvents", u, 0, NoReq, "forbidden")
       ELSE /\ events' = [id \in DOMAIN events |->
                            IF events[id].organizer = u
                            THEN refreshed(events[id], now) ELSE events[id]]
            /\ last' = Read("getMyEvents", u, 0,
                             {id \in DOMAIN events : events[id].organizer = u})
    /\ UNCHANGED <<now, nextId, profiles, cache, inflight>>

GetEvent(id) ==
    /\ IF id \notin DOMAIN events
       THEN /\ UNCHANGED events
            /\ last' = Done("getEvent", "", id, NoReq, "notFound")
       ELSE /\ events' = save(events, id,
                              [events[id] EXCEPT !.status = updateStatus(events[id], now)])
            /\ last' = Read("getEvent", "", id, {id})
    /\ UNCHANGED <<now, nextId, profiles, cache, inflight>>

\* -------------------------------------------------------------- updateEvent
applyUpdate_noEndDateReset(e, r) ==
    [e EXCEPT
       !.eventTitle = IF r.eventTitle # "" THEN trim(r.eventTitle) ELSE @,
       !.eventDate = IF r.startDate # NoDate THEN r.startDate ELSE @,
       !.endDate = IF r.endDate # NoDate THEN r.endDate ELSE @,
       !.eventTime = IF r.eventTime # NoText THEN r.eventTime ELSE @,
       !.expectedCapacity = IF r.expectedCapacity # 0 THEN r.expectedCapacity ELSE @,
       !.bloodTypesNeeded = IF r.hasBloodTypes THEN r.bloodTypesNeeded ELSE @]

\* lines 456-527: the loaded document after the request's fields are applied
\* (before the time checks), for a request whose dates are accepted.
applyUpdate(e, r) ==
    LET e1 == [e EXCEPT
                 !.eventTitle = IF r.eventTitle # "" THEN trim(r.eventTitle) ELSE @,
                 !.eventDate = IF r.startDate # NoDate THEN r.startDate ELSE @,
                 !.endDate = IF r.endDate # NoDate THEN r.endDate ELSE @,
                 !.eventTime = IF r.eventTime # NoText THEN r.eventTime ELSE @,
                 !.expectedCapacity = IF r.expectedCapacity # 0 THEN r.expectedCapacity ELSE @,
                 !.bloodTypesNeeded = IF r.hasBloodTypes THEN r.bloodTypesNeeded ELSE @]
    IN [e1 EXCEPT !.endDate = IF e1.endDate = NoDate \/ e1.endDate < e1.eventDate
                              THEN e1.eventDate ELSE @]

\* line 450: the stored status decides whether the event may be updated
isImmutable(e) == e.status = "completed" \/ e.status = "cancelled"

updateResult(u, id, r, evs) ==
    IF id \notin DOMAIN evs THEN "notFound"
    ELSE LET e == evs[id]
             comparisonStart == IF r.startDate # NoDate THEN r.startDate ELSE e.eventDate
             e2 == applyUpdate(e, r)
             range == parseEventTimeRange(e2.eventTime)
         IN IF e.organizer # u THEN "notOwner"
            ELSE IF isImmutable(e) THEN "immutable"
            ELSE IF r.startDate = InvalidDate THEN "invalidStart"
            ELSE IF r.endDate = InvalidDate THEN "invalidEnd"
            ELSE IF r.endDate # NoDate /\ r.endDate < comparisonStart THEN "endBeforeStart"
            ELSE IF ~range.ok THEN "badTime"
            ELSE IF /\ DayStart(EndOfEvent(e2)) = DayStart(e2.eventDate)
                    /\ range.endMinutes <= range.startMinutes
                 THEN "endTimeNotAfter"
            ELSE IF ~Validates(e2) THEN "error"
            ELSE "ok"

UpdateEvent(u, id, r) ==
    LET res == updateResult(u, id, r, events)
    IN /\ IF res = "ok"
          THEN events' = save(events, id, applyUpdate(events[id], r))
          ELSE UNCHANGED events
       /\ last' = Done("updateEvent", u, id, r, res)
       /\ UNCHANGED <<now, nextId, profiles, cache, inflight>>

\* -------------------------------------------------------------- cancelEvent
\* lines 602-610
cancelled(e) ==
    [e EXCEPT !.status = "cancelled",
              !.attendees = [i \in 1..Len(e.attendees) |->
                               IF e.attendees[i].status = "registered"
                               THEN [e.attendees[i] EXCEPT !.status = "cancelled"]
                               ELSE e.attendees[i]]]

cancelResult_completedAllowed(u, id, evs) ==
    IF Role(u) # "organizer" THEN "forbidden"
    ELSE IF id \notin DOMAIN evs THEN "notFound"
    ELSE IF evs[id].organizer # u THEN "notOwner"
    ELSE IF evs[id].status = "cancelled" THEN "alreadyCancelled"
    ELSE "ok"

cancelResult(u, id, evs) ==
    IF Role(u) # "organizer" THEN "forbidden"
    ELSE IF id \notin DOMAIN evs THEN "notFound"
    ELSE IF evs[id].organizer # u THEN "notOwner"
    ELSE IF evs[id].status = "cancelled" THEN "alreadyCancelled"
    ELSE IF evs[id].status = "completed" THEN "completed"
    ELSE "ok"

CancelEvent(u, id) ==
    LET res == cancelResult(u, id, events)
    IN /\ IF res = "ok"
          THEN events' = save(events, id, cancelled(events[id]))
          ELSE UNCHANGED events
       /\ last' = Done("cancelEvent", u, id, NoReq, res)
       /\ UNCHANGED <<now, nextId, profiles, cache, inflight>>

\* -------------------------------------------------------------- deleteEvent
deleteResult_noOwnerCheck(u, id, evs) ==
    IF id \notin DOMAIN evs THEN "notFound"
    ELSE "ok"

\* lines 632-646
deleteResult(u, id, evs) ==
    IF id \notin DOMAIN evs THEN "notFound"
    ELSE IF evs[id].organizer # u THEN "notOwner"
    ELSE "ok"

DeleteEvent(u, id) ==
    LET res == deleteResult(u, id, events)
    IN /\ IF res = "ok"
          THEN events' = [i \in DOMAIN events \ {id} |-> events[i]]
          ELSE UNCHANGED events
       /\ last' = Done("deleteEvent", u, id, NoReq, res)
       /\ UNCHANGED <<now, nextId, profiles, cache, inflight>>

\* --------------------------------------------------------- registerForEvent
\* lines 688-690
alreadyRegistered_never(e, u) == FALSE

alreadyRegistered(e, u) == \E i \in 1..Len(e.attendees) : e.attendees[i].donor = u

\* line 681
eventIsFull_never(e) == FALSE

eventIsFull(e) == isFull(e)

registerResult(u, id, evs) ==
    IF Role(u) # "donor" THEN "forbidden"
    ELSE IF id \notin DOMAIN evs THEN "notFound"
    ELSE IF eventIsFull(evs[id]) THEN "full"
    ELSE IF alreadyRegistered(evs[id], u) THEN "already"
    ELSE "ok"

RegisterForEvent(u, id) ==
    LET res == registerResult(u, id, events)
    IN /\ IF res = "ok"
          THEN events' = save(events, id,
                    [events[id] EXCEPT !.attendees =
                        Append(@, [donor |-> u, status |-> "registered"])])
          ELSE UNCHANGED events
       /\ last' = Done("registerForEvent", u, id, NoReq, res)
       /\ UNCHANGED <<now, nextId, profiles, cache, inflight>>

\* ------------------------------------------------------- cancelRegistration
\* lines 732-734: findIndex, 0 for -1
attendeeIndex(e, u) ==
    IF \E i \in 1..Len(e.attendees) : e.attendees[i].donor = u
    THEN CHOOSE i \in 1..Len(e.attendees) :
            /\ e.attendees[i].donor = u
            /\ \A k \in 1..(i - 1) : e.attendees[k].donor # u
    ELSE 0

cancelRegistrationResult(u, id, evs) ==
    IF id \notin DOMAIN evs THEN "notFound"
    ELSE IF attendeeIndex(evs[id], u) = 0 THEN "notRegistered"
    ELSE "ok"

CancelRegistration(u, id) ==
    LET res == cancelRegistrationResult(u, id, events)
    IN /\ IF res = "ok"
          THEN events' = save(events, id,
                    [events[id] EXCEPT
                        !.attendees[attendeeIndex(events[id], u)].status = "cancelled"])
          ELSE UNCHANGED events
       /\ last' = Done("cancelRegistration", u, id, NoReq, res)
       /\ UNCHANGED <<now, nextId, profiles, cache, inflight>>

\* -------------------------------------------------------------------- clock
\* new Date() moves on between requests.
Tick(t) ==
    /\ t > now
    /\ now' = t
    /\ last' = NoOp
    /\ UNCHANGED <<events, nextId, profiles, cache, inflight>>

\* ------------------------------------------------------------ specification
\* Requests are served one at a time; users, request bodies, read filters
\* and clock readings are drawn from the given sets.
NextOf(users, limit, creates, updates, filters, clock) ==
    \/ \E u \in users, r \in creates : CreateEvent(u, r, limit)
    \/ \E f \in filters : GetAllEvents(f)
    \/ \E u \in users : GetMyEvents(u)
    \/ \E id \in 1..limit : GetEvent(id)
    \/ \E u \in users, id \in 1..limit, r \in updates : UpdateEvent(u, id, r)
    \/ \E u \in users, id \in 1..limit : CancelEvent(u, id)
    \/ \E u \in users, id \in 1..limit : DeleteEvent(u, id)
    \/ \E u \in users, id \in 1..limit : RegisterForEvent(u, id)
    \/ \E u \in users, id \in 1..limit : CancelRegistration(u, id)
    \/ \E t \in clock : Tick(t)

Init ==
    /\ events = << >>
    /\ now = At(0, 8, 0)
    /\ nextId = 1
    /\ last = NoOp
    /\ profiles = InitialUsers
    /\ cache = << >>
    /\ inflight = << >>

\* Lifecycle: one organizer's events and one donor, every route, the clock
\* passing from before the window to the day after it.
Users == {"org1", "donor1"}

CreateReqs == { Req("Drive", Day(0), NoDate, DayShift, 1, TRUE, <<"O+">>, TRUE) }

UpdateReqs ==
    { Req("", NoDate, NoDate, NoText, 2, FALSE, << >>, FALSE),
      Req("", NoDate, Day(1), NightShift, 0, FALSE, << >>, FALSE) }

Filters == {"", "completed", "cancelled"}

Clock == { At(0, 10, 0), At(0, 18, 0), At(1, 1, 0) }

Next == NextOf(Users, MaxEvents, CreateReqs, UpdateReqs, Filters, Clock)

Spec == Init /\ [][Next]_vars

\* Registration: two donors competing for events of capacity 1 and 2, the
\* organizer resizing and cancelling them.
RosterUsers == {"org1", "donor1", "donor2"}

RosterCreateReqs ==
    { Req("Drive", Day(0), NoDate, DayShift, cap, TRUE, <<"O+">>, TRUE) : cap \in 1..2 }

RosterUpdateReqs ==
    { Req("", NoDate, NoDate, NoText, cap, FALSE, << >>, FALSE) : cap \in 1..2 }

NextRoster ==
    \/ \E u \in RosterUsers, r \in RosterCreateReqs : CreateEvent(u, r, MaxEvents)
    \/ \E id \in 1..MaxEvents : GetEvent(id)
    \/ \E u \in RosterUsers, id \in 1..MaxEvents, r \in RosterUpdateReqs : UpdateEvent(u, id, r)
    \/ \E u \in RosterUsers, id \in 1..MaxEvents : CancelEvent(u, id)
    \/ \E u \in RosterUsers, id \in 1..MaxEvents : RegisterForEvent(u, id)
    \/ \E u \in RosterUsers, id \in 1..MaxEvents : CancelRegistration(u, id)

SpecRoster == Init /\ [][NextRoster]_vars

\* Titles: one organizer creating, reading and cancelling same-titled events.
TitleCreateReqs ==
    { Req(title, Day(0), NoDate, DayShift, 1, TRUE, <<"O+">>, TRUE) :
          title \in {"Drive", "DRIVE", " drive ", "Camp"} }
    \cup { Req("Drive", Day(0), NoDate, DayShift, 1, TRUE, <<"O+">>, FALSE),
           Req("Drive", Day(0), NoDate, DayShift, 1, TRUE, << >>, TRUE) }

TitleClock == { At(0, 10, 0), At(0, 18, 0) }

NextTitles ==
    \/ \E u \in {"org1", "donor1"}, r \in TitleCreateReqs : CreateEvent(u, r, MaxTitleEvents)
    \/ \E id \in 1..MaxTitleEvents : GetEvent(id)
    \/ \E id \in 1..MaxTitleEvents : CancelEvent("org1", id)
    \/ \E t \in TitleClock : Tick(t)

SpecTitles == Init /\ [][NextTitles]_vars

\* Authorization: two organizers and a donor, each trying every mutating
\* route on events owned by either organizer.
AuthUsers == {"org1", "org2", "donor1"}

AuthUpdateReqs == { Req("", NoDate, NoDate, NoText, 2, FALSE, << >>, FALSE) }

NextAuth ==
    \/ \E u \in AuthUsers, r \in CreateReqs : CreateEvent(u, r, MaxEvents)
    \/ \E u \in AuthUsers, id \in 1..MaxEvents, r \in AuthUpdateReqs : UpdateEvent(u, id, r)
    \/ \E u \in AuthUsers, id \in 1..MaxEvents : CancelEvent(u, id)
    \/ \E u \in AuthUsers, id \in 1..MaxEvents : DeleteEvent(u, id)
    \/ \E u \in AuthUsers, id \in 1..MaxEvents : RegisterForEvent(u, id)

SpecAuth == Init /\ [][NextAuth]_vars

\* Creation: one organizer posting well-formed and malformed requests on
\* day 0 and on day 1: every pairing of start date, end date and time text,
\* and each required field missing or invalid in turn.
ValidationStarts == { Day(0), Day(1), At(1, 3, 0), Day(2), InvalidDate }
ValidationEnds == { NoDate, Day(1), At(1, 1, 0), Day(2) }

\* "9:00 AM - 5:00 PM", "10:00 pm - 2 am", "9:00 AM", "9: AM - 5:00 PM",
\* "9:00 AM - 9:00 AM"
ValidationTexts ==
    { DayShift, NightShift, << Seg(9, 0, "AM") >>,
      << Seg(9, Empty, "AM"), Seg(5, 0, "PM") >>,
      << Seg(9, 0, "AM"), Seg(9, 0, "AM") >> }

ValidationCreateReqs ==
    { Req("Drive", start, end, text, 1, TRUE, <<"O+">>, TRUE) :
          start \in ValidationStarts, end \in ValidationEnds, text \in ValidationTexts }
    \cup { Req("", Day(1), NoDate, DayShift, 1, TRUE, <<"O+">>, TRUE),
           Req("Drive", NoDate, NoDate, DayShift, 1, TRUE, <<"O+">>, TRUE),
           Req("Drive", Day(1), NoDate, NoText, 1, TRUE, <<"O+">>, TRUE),
           Req("Drive", Day(1), NoDate, DayShift, 0, TRUE, <<"O+">>, TRUE),
           Req("Drive", Day(1), NoDate, DayShift, 0 - 1, TRUE, <<"O+">>, TRUE),
           Req("Drive", Day(1), NoDate, DayShift, 1, FALSE, << >>, TRUE),
           Req("Drive", Day(1), NoDate, DayShift, 1, TRUE, << >>, TRUE),
           Req("Drive", Day(1), NoDate, DayShift, 1, TRUE, <<"O+", "X">>, TRUE),
           Req("Drive", Day(1), NoDate, DayShift, 1, TRUE, <<"O+">>, FALSE) }

ValidationClock == { At(1, 8, 0) }

NextCreation ==
    \/ \E r \in ValidationCreateReqs : CreateEvent("org1", r, MaxEvents)
    \/ \E t \in ValidationClock : Tick(t)

SpecCreation == Init /\ [][NextCreation]_vars

\* Revision: one organizer creating events and changing their start date,
\* end date and time text, on day 0 and on day 1.
RevisionCreateReqs ==
    { Req("Drive", Day(0), NoDate, DayShift, 1, TRUE, <<"O+">>, TRUE),
      Req("Drive", At(1, 3, 0), At(1, 1, 0), DayShift, 1, TRUE, <<"O+">>, TRUE) }

RevisionUpdateReqs ==
    { Req("", start, end, text, 0, FALSE, << >>, FALSE) :
          start \in { NoDate, Day(0), At(1, 3, 0), Day(2) },
          end \in { NoDate, Day(1), At(1, 1, 0) },
          text \in { NoText, DayShift, NightShift, << Seg(9, 0, "AM") >> } }
    \cup { Req("", InvalidDate, NoDate, NoText, 0, FALSE, << >>, FALSE),
           Req("", NoDate, InvalidDate, NoText, 0, FALSE, << >>, FALSE) }

NextRevision ==
    \/ \E r \in RevisionCreateReqs : CreateEvent("org1", r, MaxEvents)
    \/ \E id \in 1..MaxEvents, r \in RevisionUpdateReqs : UpdateEvent("org1", id, r)
    \/ \E t \in ValidationClock : Tick(t)

SpecRevision == Init /\ [][NextRevision]_vars

\* Blood types: one organizer creating events and replacing their blood-type
\* list (an empty list, other types, an unknown type) or their capacity.
BloodCreateReqs ==
    { Req("Drive", Day(0), NoDate, DayShift, 1, TRUE, blood, TRUE) :
          blood \in { <<"O+">>, <<"AB-", "O-">>, << >>, <<"O+", "X">> } }
    \cup { Req("Drive", Day(0), NoDate, DayShift, 1, FALSE, << >>, TRUE) }

BloodUpdateReqs ==
    { Req("", NoDate, NoDate, NoText, 0, TRUE, blood, FALSE) :
          blood \in { << >>, <<"A+", "B-">>, <<"O-">>, <<"X">> } }
    \cup { Req("", NoDate, NoDate, NoText, 2, FALSE, << >>, FALSE) }

NextBloodTypes ==
    \/ \E r \in BloodCreateReqs : CreateEvent("org1", r, MaxEvents)
    \/ \E id \in 1..MaxEvents, r \in BloodUpdateReqs : UpdateEvent("org1", id, r)
    \/ \E t \in ValidationClock : Tick(t)

SpecBloodTypes == Init /\ [][NextBloodTypes]_vars

\* ------------------------------------------ profile controller (part_002)
PROFILE_CACHE_TTL_MS == 2 * 60 * 1000

\* `donor:${id}`, `organizer:${id}`
CacheKey(role, u) == <<role, u>>

\* line 24: the entry is too old to be served
expired(entry, t) == t - entry.timestamp > PROFILE_CACHE_TTL_MS

\* getCachedProfileData returns the entry's data (a hit) ...
lookupHits(c, key, t) == key \in DOMAIN c /\ ~expired(c[key], t)

\* ... and deletes an entry it finds expired.
lookupCache(c, key, t) ==
    IF key \in DOMAIN c /\ expired(c[key], t)
    THEN [k \in DOMAIN c \ {key} |-> c[k]]
    ELSE c

setCachedProfileData(c, key, data, t) ==
    [k \in DOMAIN c \cup {key} |->
        IF k = key THEN [data |-> data, timestamp |-> t] ELSE c[k]]

clearCachedProfileData(c, u) ==
    [k \in DOMAIN c \ {CacheKey("donor", u), CacheKey("organizer", u)} |-> c[k]]

RECURSIVE SumAttendees(_, _)
SumAttendees(evs, ids) ==
    IF ids = {} THEN 0
    ELSE LET id == CHOOSE i \in ids : TRUE
         IN evs[id].currentAttendees + SumAttendees(evs, ids \ {id})

\* buildOrganizerProfileData, lines 52-144: the summary computed from the
\* organizer's events.
organizerProfileData(u, evs) ==
    LET mine == {id \in DOMAIN evs : evs[id].organizer = u}
        totalEvents == Cardinality(mine)
        totalAttendees == SumAttendees(evs, mine)
    IN [eventsOrganized |-> totalEvents,
        totalAttendees |-> totalAttendees,
        achievements |->
            {a \in {"First Event", "100 Donors Milestone", "10 Events Organized",
                    "50 Events Organized"} :
                \/ a = "First Event" /\ totalEvents >= 1
                \/ a = "100 Donors Milestone" /\ totalAttendees >= 100
                \/ a = "10 Events Organized" /\ totalEvents >= 10
                \/ a = "50 Events Organized" /\ totalEvents >= 50},
        history |-> mine]

\* buildDonorProfileData, lines 161-214 (no registeredEvents are recorded on
\* a user document, so the donation history is empty).
donorProfileData(u, prof) ==
    [achievements |->
        {a \in {"First Donation", "5 Donations", "10 Donations", "25 Donations"} :
            \/ a = "First Donation" /\ prof.totalDonations >= 1
            \/ a = "5 Donations" /\ prof.totalDonations >= 5
            \/ a = "10 Donations" /\ prof.totalDonations >= 10
            \/ a = "25 Donations" /\ prof.totalDonations >= 25},
     history |-> {}]

\* getProfile with buildOrganizerProfileData / buildDonorProfileData: a hit
\* returns the cached summary, a miss computes it and caches it.
GetProfile(u) ==
    LET key == CacheKey(Role(u), u)
        hit == lookupHits(cache, key, now)
        data == IF hit THEN cache[key].data
                ELSE IF Role(u) = "organizer" THEN organizerProfileData(u, events)
                ELSE donorProfileData(u, profiles[u])
    IN /\ cache' = IF hit THEN cache
                   ELSE setCachedProfileData(lookupCache(cache, key, now), key, data, now)
       /\ last' = [Done("getProfile", u, 0, NoReq, IF hit THEN "cached" ELSE "computed")
                      EXCEPT !.returned = data.history]
       /\ UNCHANGED <<events, now, nextId, profiles, inflight>>

\* A request body of updateProfile; "" and FALSE are absent fields.
Body(fullName, email, bloodType, phone, organization, memberSince, location) ==
    [fullName |-> fullName, email |-> email, bloodType |-> bloodType, phone |-> phone,
     organization |-> organization, memberSince |-> memberSince, location |-> location]

\* lines 289-315
applyProfile(u, prof, b) ==
    LET p1 == [prof EXCEPT
                 !.fullName = IF b.fullName # "" THEN b.fullName ELSE @,
                 !.bloodType = IF b.bloodType # "" THEN b.bloodType ELSE @,
                 !.phone = IF b.phone # "" THEN b.phone ELSE @,
                 !.organization = IF b.organization # "" THEN b.organization ELSE @,
                 !.memberSince = IF b.memberSince # "" THEN b.memberSince ELSE @,
                 !.hasLocation = IF b.location THEN TRUE ELSE @]
    IN [p1 EXCEPT !.isProfileComplete =
            IF Role(u) = "donor" THEN p1.bloodType # "" /\ p1.hasLocation
            ELSE p1.organization # "" /\ p1.memberSince # "" /\ p1.hasLocation]

updateProfileResult(u, b, profs) ==
    IF u \notin DOMAIN profs THEN "notFound"
    ELSE IF Role(u) # "donor" /\ b.bloodType # "" THEN "onlyDonors"
    ELSE IF Role(u) # "organizer" /\ (b.organization # "" \/ b.memberSince # "")
         THEN "onlyOrganizers"
    ELSE IF /\ b.phone # "" /\ b.phone # profs[u].phone
            /\ \E o \in DOMAIN profs \ {u} : profs[o].phone = b.phone
         THEN "phoneTaken"
    ELSE IF b.email # "" /\ b.email # profs[u].email THEN "emailFixed"
    ELSE IF applyProfile(u, profs[u], b).bloodType \notin BloodTypes \cup {""} THEN "error"
    ELSE "ok"

UpdateProfile(u, b) ==
    LET res == updateProfileResult(u, b, profiles)
    IN /\ IF res = "ok"
          THEN profiles' = [profiles EXCEPT ![u] = applyProfile(u, profiles[u], b)]
          ELSE UNCHANGED profiles
       /\ last' = Done("updateProfile", u, 0, NoReq, res)
       /\ UNCHANGED <<events, now, nextId, cache, inflight>>

\* uploadProfilePicture: hasFile is req.file, stored whether Cloudinary took
\* the image.
UploadProfilePicture(u, hasFile, stored) ==
    LET res == IF ~hasFile THEN "noFile"
               ELSE IF u \notin DOMAIN profiles THEN "notFound"
               ELSE IF ~stored THEN "error"
               ELSE "ok"
    IN /\ IF res = "ok"
          THEN profiles' = [profiles EXCEPT ![u].profilePicture = "uploaded"]
          ELSE UNCHANGED profiles
       /\ last' = Done("uploadProfilePicture", u, 0, NoReq, res)
       /\ UNCHANGED <<events, now, nextId, cache, inflight>>

\* deleteProfilePicture: removed whether Cloudinary deleted the image.
DeleteProfilePicture(u, removed) ==
    LET res == IF u \notin DOMAIN profiles THEN "notFound"
               ELSE IF profiles[u].profilePicture = "" THEN "noPicture"
               ELSE IF ~removed THEN "error"
               ELSE "ok"
    IN /\ IF res = "ok"
          THEN profiles' = [profiles EXCEPT ![u].profilePicture = ""]
          ELSE UNCHANGED profiles
       /\ last' = Done("deleteProfilePicture", u, 0, NoReq, res)
       /\ UNCHANGED <<events, now, nextId, cache, inflight>>

\* Profiles: an organizer and a donor reading and changing their profiles,
\* the organizer creating events, the clock stepping through the instants
\* one millisecond around each multiple of the cache lifetime.
ProfileUsers == {"org1", "donor1"}

ProfileBodies ==
    { Body("Sam", "", "", "", "", "", FALSE),
      Body("", "", "O+", "", "", "", TRUE),
      Body("", "", "", "", "Red Cross", "2020", TRUE),
      Body("", "sam@example.org", "", "", "", "", FALSE) }

ProfileClock ==
    { At(0, 8, 0) + k * PROFILE_CACHE_TTL_MS + d :
          k \in 1..MaxTtlPeriods, d \in {0 - 1, 0, 1} }

NextProfile ==
    \/ \E u \in ProfileUsers : GetProfile(u)
    \/ \E u \in ProfileUsers, b \in ProfileBodies : UpdateProfile(u, b)
    \/ \E u \in ProfileUsers, hasFile \in BOOLEAN, stored \in BOOLEAN :
          UploadProfilePicture(u, hasFile, stored)
    \/ \E u \in ProfileUsers, removed \in BOOLEAN : DeleteProfilePicture(u, removed)
    \/ \E r \in CreateReqs : CreateEvent("org1", r, MaxEvents)
    \/ \E t \in ProfileClock : Tick(t)

SpecProfile == Init /\ [][NextProfile]_vars

\* ----------------------------------------------------- interleaved requests
\* A request between its load and its save: the document as findById
\* returned it and the document as the handler changed it in memory.
Pending(op, id, loaded, doc) == [op |-> op, id |-> id, loaded |-> loaded, doc |-> doc]

Without(f, k) == [x \in DOMAIN f \ {k} |-> f[x]]
With(f, k, v) == [x \in DOMAIN f \cup {k} |-> IF x = k THEN v ELSE f[x]]

\* event.save() on a loaded document sends the changes made in memory, not
\* the document: elements pushed on the roster are appended to the stored
\* roster, a changed element of a loaded roster position and a changed
\* scalar field are set.  A change of a roster position is conditional on
\* the stored version being the loaded one, and a push increments the
\* version; among these requests the version is the length of the roster.
changesPosition(loaded, doc) ==
    \E i \in 1..Len(loaded.attendees) : doc.attendees[i] # loaded.attendees[i]

versionConflict(stored, loaded, doc) ==
    changesPosition(loaded, doc) /\ Len(stored.attendees) # Len(loaded.attendees)

saveChanges_wholeDocument(stored, loaded, doc) == doc

saveChanges(stored, loaded, doc) ==
    LET kept == [i \in 1..Len(stored.attendees) |->
                    IF i <= Len(loaded.attendees) /\ doc.attendees[i] # loaded.attendees[i]
                    THEN doc.attendees[i] ELSE stored.attendees[i]]
        pushed == SubSeq(doc.attendees, Len(loaded.attendees) + 1, Len(doc.attendees))
    IN [stored EXCEPT
          !.attendees = kept \o pushed,
          !.currentAttendees =
              IF doc.currentAttendees # loaded.currentAttendees
              THEN doc.currentAttendees ELSE @,
          !.endDate = IF doc.endDate # loaded.endDate THEN doc.endDate ELSE @]

\* registerForEvent up to "await event.save()" (lines 664-702)
BeginRegister(u, id) ==
    LET res == registerResult(u, id, events)
    IN /\ u \notin DOMAIN inflight
       /\ IF res = "ok"
          THEN /\ inflight' = With(inflight, u,
                      Pending("registerForEvent", id, events[id],
                          preSave([events[id] EXCEPT !.attendees =
                              Append(@, [donor |-> u, status |-> "registered"])])))
               /\ last' = NoOp
          ELSE /\ UNCHANGED inflight
               /\ last' = Done("registerForEvent", u, id, NoReq, res)
       /\ UNCHANGED <<events, now, nextId, profiles, cache>>

\* cancelRegistration up to "await event.save()" (lines 722-744)
BeginCancelRegistration(u, id) ==
    LET res == cancelRegistrationResult(u, id, events)
    IN /\ u \notin DOMAIN inflight
       /\ IF res = "ok"
          THEN /\ inflight' = With(inflight, u,
                      Pending("cancelRegistration", id, events[id],
                          preSave([events[id] EXCEPT
                              !.attendees[attendeeIndex(events[id], u)].status =
                                  "cancelled"])))
               /\ last' = NoOp
          ELSE /\ UNCHANGED inflight
               /\ last' = Done("cancelRegistration", u, id, NoReq, res)
       /\ UNCHANGED <<events, now, nextId, profiles, cache>>

\* The save of a pending request and its response: 200, or 500 when the
\* save throws a version error.
FinishSave(u) ==
    /\ u \in DOMAIN inflight
    /\ inflight[u].op \in {"registerForEvent", "cancelRegistration"}
    /\ LET r == inflight[u]
           stored == events[r.id]
       IN IF versionConflict(stored, r.loaded, r.doc)
          THEN /\ UNCHANGED events
               /\ last' = Done(r.op, u, r.id, NoReq, "error")
          ELSE /\ events' = [events EXCEPT ![r.id] = saveChanges(stored, r.loaded, r.doc)]
               /\ last' = Done(r.op, u, r.id, NoReq, "ok")
    /\ inflight' = Without(inflight, u)
    /\ UNCHANGED <<now, nextId, profiles, cache>>

\* Registration race: two donors whose registrations and cancellations on
\* one event interleave between load and save.
NextRace ==
    \/ \E r \in RosterCreateReqs : CreateEvent("org1", r, MaxEvents)
    \/ \E u \in Donors, id \in 1..MaxEvents : BeginRegister(u, id)
    \/ \E u \in Donors, id \in 1..MaxEvents : BeginCancelRegistration(u, id)
    \/ \E u \in Donors : FinishSave(u)

SpecRace == Init /\ [][NextRace]_vars

\* createEvent up to "await Event.create(...)" (lines 63-178): the lookup of
\* same-titled events (122-126) and every check made on its answer.  The
\* schema validation run by Event.create depends on the request alone and
\* is decided here with the other checks.
BeginCreate(u, r) ==
    LET res == createResult(u, r, events, now)
        doc == EventDoc(u, trim(r.eventTitle), r.startDate, CreateEndDate(r), r.eventTime,
                        r.expectedCapacity, r.bloodTypesNeeded)
    IN /\ u \notin DOMAIN inflight
       /\ IF res = "created"
          THEN /\ inflight' = With(inflight, u, Pending("createEvent", 0, r, doc))
               /\ last' = NoOp
          ELSE /\ UNCHANGED inflight
               /\ last' = Done("createEvent", u, 0, r, res)
       /\ UNCHANGED <<events, now, nextId, profiles, cache>>

insertDocument_uniqueTitle(evs, id, doc) ==
    IF \E i \in DOMAIN evs : titleMatches(evs[i].eventTitle, doc.eventTitle)
    THEN evs
    ELSE save(evs, id, doc)

\* Event.create (lines 179-194): the collection has no unique index on the
\* title, the insert looks at no other document.
insertDocument(evs, id, doc) == save(evs, id, doc)

\* The insert of a pending createEvent and its 201 response.
FinishCreate(u, limit) ==
    /\ u \in DOMAIN inflight
    /\ inflight[u].op = "createEvent"
    /\ nextId <= limit
    /\ events' = insertDocument(events, nextId, inflight[u].doc)
    /\ nextId' = nextId + 1
    /\ last' = Done("createEvent", u, nextId, inflight[u].loaded, "created")
    /\ inflight' = Without(inflight, u)
    /\ UNCHANGED <<now, profiles, cache>>

\* Creation race: two organizers whose createEvent requests interleave
\* between the title lookup and the insert.
RaceCreateReqs ==
    { Req(title, Day(d), NoDate, DayShift, 1, TRUE, <<"O+">>, TRUE) :
          title \in {"Drive", " drive ", "Camp"}, d \in 0..1 }

RaceClock == { At(0, 10, 0), At(0, 18, 0) }

NextCreateRace ==
    \/ \E u \in Organizers, r \in RaceCreateReqs : BeginCreate(u, r)
    \/ \E u \in Organizers : FinishCreate(u, MaxTitleEvents)
    \/ \E t \in RaceClock : Tick(t)

SpecCreateRace == Init /\ [][NextCreateRace]_vars

\* ---------------------------------------------------------------- attendance
\* Marking attendance: an operator action on a registered record of the
\* event; only registered records are eligible.  The roster change is
\* stored with the document's save.
Attend(u, id) ==
    /\ id \in DOMAIN events
    /\ \E i \in 1..Len(events[id].attendees) :
          /\ events[id].attendees[i].donor = u
          /\ events[id].attendees[i].status = "registered"
          /\ events' = save(events, id,
                [events[id] EXCEPT !.attendees[i].status = "attended"])
    /\ last' = Done("attend", u, id, NoReq, "ok")
    /\ UNCHANGED <<now, nextId, profiles, cache, inflight>>

\* Attendance: registrations, attendance markings and cancellations on one
\* event.
NextAttendance ==
    \/ \E r \in RosterCreateReqs : CreateEvent("org1", r, MaxEvents)
    \/ \E u \in Donors, id \in 1..MaxEvents : RegisterForEvent(u, id)
    \/ \E u \in Donors, id \in 1..MaxEvents : Attend(u, id)
    \/ \E u \in Donors, id \in 1..MaxEvents : CancelRegistration(u, id)
    \/ \E id \in 1..MaxEvents : CancelEvent("org1", id)
    \/ \E id \in 1..MaxEvents : GetEvent(id)

SpecAttendance == Init /\ [][NextAttendance]_vars

\* Renaming: one organizer creating two events and changing their titles
\* and dates, serially.
RenameCreateReqs ==
    { Req(title, Day(0), NoDate, DayShift, 1, TRUE, <<"O+">>, TRUE) :
          title \in {"Drive", "Camp"} }

RenameUpdateReqs ==
    { Req(title, NoDate, NoDate, NoText, 0, FALSE, << >>, FALSE) :
          title \in {"drive", "Camp"} }
    \cup { Req("", Day(1), NoDate, NoText, 0, FALSE, << >>, FALSE) }

RenameClock == { At(0, 18, 0) }

NextRename ==
    \/ \E r \in RenameCreateReqs : CreateEvent("org1", r, MaxTitleEvents)
    \/ \E id \in 1..MaxTitleEvents, r \in RenameUpdateReqs : UpdateEvent("org1", id, r)
    \/ \E t \in RenameClock : Tick(t)

SpecRename == Init /\ [][NextRename]_vars

\* =================================================================== claims
RecordsOf(e, d) == {i \in 1..Len(e.attendees) : e.attendees[i].donor = d}

ActiveRecordsOf(e, d) ==
    {i \in RecordsOf(e, d) : e.attendees[i].status # "cancelled"}

\* C1: every persisted event's currentAttendees equals the number of its
\* attendee records whose status is registered or attended.
C1_CountMatchesRoster ==
    \A id \in DOMAIN events :
        events[id].currentAttendees =
            Cardinality({i \in 1..Len(events[id].attendees) :
                           events[id].attendees[i].status \in {"registered", "attended"}})

\* C1 witness: a cancellation has just left one cancelled and one registered
\* record, counted as one attendee.
C1_Witness ==
    /\ last.op = "cancelRegistration"
    /\ last.result = "ok"
    /\ last.id \in DOMAIN events
    /\ Len(events[last.id].attendees) = 2
    /\ events[last.id].currentAttendees = 1

\* C2: registerForEvent on an event whose currentAttendees has reached
\* expectedCapacity is rejected and leaves every event unchanged.
C2_FullEventRejects ==
    [][ (/\ last'.op = "registerForEvent"
         /\ last'.id \in DOMAIN events
         /\ events[last'.id].currentAttendees >= events[last'.id].expectedCapacity)
        => (/\ last'.result \in {"full", "forbidden"}
            /\ Role(last'.user) = "donor" => last'.result = "full"
            /\ events' = events) ]_vars

\* C2 witness: a donor without a record was turned away from a full event.
C2_Witness ==
    /\ last.op = "registerForEvent"
    /\ last.result = "full"
    /\ last.id \in DOMAIN events
    /\ RecordsOf(events[last.id], last.user) = {}
    /\ events[last.id].currentAttendees = events[last.id].expectedCapacity

\* C3: a roster never holds two non-cancelled records of one donor, and a
\* registerForEvent by a donor who holds a registered record is rejected.
C3_OneActiveRegistration ==
    [][ /\ \A id \in DOMAIN events' : \A d \in Donors :
               Cardinality(ActiveRecordsOf(events'[id], d)) <= 1
        /\ (/\ last'.op = "registerForEvent"
            /\ last'.id \in DOMAIN events
            /\ \E i \in RecordsOf(events[last'.id], last'.user) :
                   events[last'.id].attendees[i].status = "registered")
           => (last'.result # "ok" /\ events' = events) ]_vars

\* C3 witness: a second registration by a registered donor was rejected as
\* already registered (the event had room).
C3_Witness ==
    /\ last.op = "registerForEvent"
    /\ last.result = "already"
    /\ last.id \in DOMAIN events
    /\ \E i \in RecordsOf(events[last.id], last.user) :
           events[last.id].attendees[i].status = "registered"

\* C4: register, cancel registration, register again by one donor on an
\* event with room: the third call succeeds and the roster then holds a
\* cancelled and a registered record of the donor.
C4_ReRegisterAfterCancel ==
    [][ (/\ last.op = "cancelRegistration"
         /\ last.result = "ok"
         /\ last'.op = "registerForEvent"
         /\ last'.user = last.user
         /\ last'.id = last.id
         /\ last.id \in DOMAIN events
         /\ events[last.id].currentAttendees < events[last.id].expectedCapacity
         /\ Cardinality(RecordsOf(events[last.id], last.user)) = 1)
        => (/\ last'.result = "ok"
            /\ last.id \in DOMAIN events'
            /\ Cardinality(RecordsOf(events'[last.id], last.user)) = 2
            /\ Cardinality(ActiveRecordsOf(events'[last.id], last.user)) = 1) ]_vars

\* C5: cancelRegistration succeeds only when the donor has a record that is
\* not yet cancelled; on an already cancelled record it is rejected.
C5_CancelNeedsActiveRecord ==
    [][ (/\ last'.op = "cancelRegistration"
         /\ last'.result = "ok")
        => (/\ last'.id \in DOMAIN events
            /\ ActiveRecordsOf(events[last'.id], last'.user) # {}) ]_vars

\* C6: an event whose persisted status is cancelled keeps that status in
\* every later state in which it is persisted, whatever request is served
\* and whatever the clock reads.
C6_CancelledIsAbsorbing ==
    [][ \A id \in DOMAIN events :
            (events[id].status = "cancelled" /\ id \in DOMAIN events')
                => events'[id].status = "cancelled" ]_vars

\* C6 witness: a cancelled event was read while the clock was inside its
\* window and stayed cancelled.
C6_Witness ==
    /\ last.op = "getEvent"
    /\ last.result = "ok"
    /\ last.id \in DOMAIN events
    /\ events[last.id].status = "cancelled"
    /\ ResolveStatus(events[last.id], now) = "ongoing"

\* The reference resolver of the specification: both sides anchored with the
\* range parser's minute offsets, one day added when end <= start.
RefWindowStatus(e, t) ==
    LET sm == parseTimeStringToMinutes(SegAt(e.eventTime, 1))
        em == parseTimeStringToMinutes(SegAt(e.eventTime, 2))
        start == DayStart(e.eventDate) + sm * MsPerMinute
        end0 == DayStart(EndOfEvent(e)) + em * MsPerMinute
        end == IF end0 <= start THEN end0 + MsPerDay ELSE end0
    IN IF t < start THEN "upcoming"
       ELSE IF t > end THEN "completed"
       ELSE "ongoing"

BothSidesParse(text) ==
    /\ parseTimeStringToMinutes(SegAt(text, 1)) # Null
    /\ parseTimeStringToMinutes(SegAt(text, 2)) # Null

\* Date-only granularity: before 00:00 of startDate, after 23:59:59.999 of
\* endDate, or in between.
RefDateOnlyStatus(e, t) ==
    IF t < DayStart(e.eventDate) THEN "upcoming"
    ELSE IF t > DayStart(EndOfEvent(e)) + MsPerDay - 1 THEN "completed"
    ELSE "ongoing"

\* The resolver has just been applied to event id, which is not cancelled.
Resolved(id) ==
    /\ last.op = "updateStatus"
    /\ last.id = id
    /\ id \in DOMAIN events
    /\ events[id].status # "cancelled"

\* C7: for a non-cancelled event whose time text parses on both sides,
\* updateStatus returns what the reference resolver returns: upcoming before
\* start, ongoing from start to end inclusive, completed after end, the end
\* moved one day on when it is not after the start.
C7_ResolverMatchesReference ==
    \A id \in DOMAIN events :
        (Resolved(id) /\ BothSidesParse(events[id].eventTime))
            => last.result = RefWindowStatus(events[id], now)

\* C7 witness: a midnight-crossing event evaluated exactly at its moved end.
C7_Witness ==
    /\ Resolved(1)
    /\ events[1].eventTime = NightShift
    /\ events[1].eventDate = Day(1)
    /\ events[1].endDate = Day(1)
    /\ now = At(2, 2, 0)
    /\ last.result = "ongoing"

ReachesDuplicateCheck(u, r) ==
    /\ Role(u) = "organizer"
    /\ r.eventTitle # "" /\ r.startDate # NoDate /\ r.eventTime # NoText
    /\ r.expectedCapacity # 0 /\ r.hasBloodTypes /\ r.rest
    /\ Len(r.bloodTypesNeeded) > 0

SameTitleIgnoringCase(a, b) == lowerCase(a) = lowerCase(b)

\* The status of a stored event as of instant t.
CurrentStatus(e, t) == IF e.status = "cancelled" THEN "cancelled" ELSE ResolveStatus(e, t)

\* C9: a createEvent that gets as far as the duplicate check is rejected as
\* a duplicate exactly when an existing event has the same title ignoring
\* case and a status, recomputed at request time, of upcoming or ongoing;
\* the stored status field plays no part.
C9_DuplicateIffActiveSameTitle ==
    [][ last'.op = "createEvent"
        => (/\ last'.result = "duplicate" => ReachesDuplicateCheck(last'.user, last'.req)
            /\ ReachesDuplicateCheck(last'.user, last'.req)
               => (last'.result = "duplicate"
                   <=> \E id \in DOMAIN events :
                          /\ SameTitleIgnoringCase(events[id].eventTitle,
                                                   trim(last'.req.eventTitle))
                          /\ CurrentStatus(events[id], now) \in {"upcoming", "ongoing"})) ]_vars

\* C9 witness: a title was accepted although an event with the same title
\* in another case is still stored as upcoming, its window being over.
C9_Witness ==
    /\ last.op = "createEvent"
    /\ last.result = "created"
    /\ \E id \in DOMAIN events :
          /\ id # last.id
          /\ SameTitleIgnoringCase(events[id].eventTitle, events[last.id].eventTitle)
          /\ events[id].eventTitle # events[last.id].eventTitle
          /\ events[id].status = "upcoming"
          /\ CurrentStatus(events[id], now) = "completed"

\* C10: updateEvent is rejected and persists nothing whenever the event's
\* status derived at request time is completed or cancelled, also when the
\* stored status field is stale.
C10_UpdateRejectedOnDerivedStatus ==
    [][ (/\ last'.op = "updateEvent"
         /\ last'.id \in DOMAIN events
         /\ CurrentStatus(events[last'.id], now) \in {"completed", "cancelled"})
        => (last'.result # "ok" /\ events' = events) ]_vars

\* C11: cancelEvent is accepted only when the event's current status, as of
\* the request, is neither cancelled nor completed; an accepted cancelEvent
\* stores status cancelled, turns every registered record into a cancelled
\* one, leaves attended records as they are, and stores as currentAttendees
\* the number of records still registered or attended.
C11_CancelOnlyWhenActive ==
    [][ (/\ last'.op = "cancelEvent"
         /\ last'.result = "ok")
        => (/\ last'.id \in DOMAIN events
            /\ last'.id \in DOMAIN events'
            /\ CurrentStatus(events[last'.id], now) \notin {"cancelled", "completed"}
            /\ LET before == events[last'.id]
                   after == events'[last'.id]
               IN /\ after.status = "cancelled"
                  /\ Len(after.attendees) = Len(before.attendees)
                  /\ \A i \in 1..Len(before.attendees) :
                        /\ after.attendees[i].donor = before.attendees[i].donor
                        /\ after.attendees[i].status =
                              IF before.attendees[i].status = "registered"
                              THEN "cancelled" ELSE before.attendees[i].status
                  /\ after.currentAttendees = ActiveCount(after.attendees)) ]_vars

\* The request just served came from a user the route does not admit.
Unauthorized(req, evs) ==
    \/ /\ req.op \in {"updateEvent", "cancelEvent", "deleteEvent"}
       /\ req.id \in DOMAIN evs
       /\ evs[req.id].organizer # req.user
    \/ /\ req.op = "registerForEvent"
       /\ Role(req.user) # "donor"
    \/ /\ req.op \in {"createEvent", "cancelEvent"}
       /\ Role(req.user) # "organizer"

\* C12: updateEvent, cancelEvent and deleteEvent by a user who is not the
\* event's organizer, registerForEvent by a non-donor, and createEvent and
\* cancelEvent by a non-organizer are rejected and change no persisted
\* event; the organizer of a persisted event never changes.
C12_UnauthorizedChangesNothing ==
    [][ /\ Unauthorized(last', events)
           => (/\ last'.result \in {"forbidden", "notOwner"}
               /\ events' = events)
        /\ \A id \in DOMAIN events \cap DOMAIN events' :
               events'[id].organizer = events[id].organizer ]_vars

\* C12 witness: the other organizer was refused the deletion of an event
\* that has a registered donor.
C12_Witness ==
    /\ last.op = "deleteEvent"
    /\ last.result = "notOwner"
    /\ last.id \in DOMAIN events
    /\ Role(last.user) = "organizer"
    /\ events[last.id].organizer # last.user
    /\ events[last.id].currentAttendees = 1

\* The creation preconditions of a request body r received at instant t.
CreationPreconditions(r, t) ==
    LET end == IF r.endDate # NoDate THEN r.endDate ELSE r.startDate
        range == parseEventTimeRange(r.eventTime)
    IN /\ r.eventTitle # "" /\ r.startDate # NoDate /\ r.eventTime # NoText
       /\ r.expectedCapacity # 0 /\ r.hasBloodTypes /\ r.rest
       /\ r.expectedCapacity > 0
       /\ Len(r.bloodTypesNeeded) > 0
       /\ range.ok
       /\ DayStart(end) >= DayStart(r.startDate)
       /\ DayStart(r.startDate) >= DayStart(t)
       /\ DayStart(end) = DayStart(r.startDate) => range.endMinutes > range.startMinutes

\* C13: createEvent persists a new event only if every creation
\* precondition holds (required fields present, capacity above 0, blood-type
\* list not empty, time text parses, end date not before start date, start
\* date not before the current calendar day, same-day end time after start
\* time); a rejected request leaves the persisted events as they were.
C13_CreateOnlyWhenValid ==
    [][ last'.op = "createEvent"
        => (/\ last'.result = "created" => CreationPreconditions(last'.req, now)
            /\ last'.result # "created" => events' = events
            /\ last'.result = "created"
               => (/\ DOMAIN events' = DOMAIN events \cup {last'.id}
                   /\ last'.id \notin DOMAIN events
                   /\ \A id \in DOMAIN events : events'[id] = events[id])) ]_vars

\* C13 witness: a request whose start instant is already over, but lies on
\* the current calendar day, was accepted and persisted.
C13_Witness ==
    /\ last.op = "createEvent"
    /\ last.result = "created"
    /\ last.id \in DOMAIN events
    /\ events[last.id].eventDate < now
    /\ DayStart(events[last.id].eventDate) = DayStart(now)

\* C14: every persisted event has an end date, not on a calendar day before
\* its start date, and if both are on one calendar day its time text parses
\* to an end minute strictly after the start minute.
C14_EndNotBeforeStart ==
    \A id \in DOMAIN events :
        LET e == events[id]
            range == parseEventTimeRange(e.eventTime)
        IN /\ e.endDate # NoDate
           /\ DayStart(e.endDate) >= DayStart(e.eventDate)
           /\ DayStart(e.endDate) = DayStart(e.eventDate)
              => (range.ok /\ range.endMinutes > range.startMinutes)

\* C14 witness: an update moved the start date past the stored end date and
\* was accepted, the end date following it.
C14_Witness ==
    /\ last.op = "updateEvent"
    /\ last.result = "ok"
    /\ last.req.startDate = Day(2)
    /\ last.req.endDate = NoDate
    /\ last.id \in DOMAIN events
    /\ events[last.id].eventDate = Day(2)
    /\ events[last.id].endDate = Day(2)

\* The date and time ordering checks of createEvent on a start date, an end
\* date and a time text at instant t.
CreateOrderingRejects(start, end, text, t) ==
    LET range == parseEventTimeRange(text)
    IN \/ DayStart(start) < DayStart(t)
       \/ DayStart(end) < DayStart(start)
       \/ ~range.ok
       \/ DayStart(end) = DayStart(start) /\ range.endMinutes <= range.startMinutes

\* The request changes a date or the time text of an event its sender may
\* update, with dates that are dates.
RevisesSchedule(u, e, r) ==
    /\ e.organizer = u
    /\ e.status \notin {"completed", "cancelled"}
    /\ r.startDate # InvalidDate /\ r.endDate # InvalidDate
    /\ r.startDate # NoDate \/ r.endDate # NoDate \/ r.eventTime # NoText

\* C15: an updateEvent that changes the start date, the end date or the time
\* text is rejected exactly when createEvent would reject the resulting
\* start date, end date and time text for their ordering: end date before
\* start date, same-day end time not after start time, or start date before
\* the current calendar day.  (A stored end date the new start date has
\* passed counts as moved to the new start date.)
C15_UpdateChecksLikeCreate ==
    [][ (/\ last'.op = "updateEvent"
         /\ last'.id \in DOMAIN events
         /\ RevisesSchedule(last'.user, events[last'.id], last'.req))
        => LET e == events[last'.id]
               r == last'.req
               start == IF r.startDate # NoDate THEN r.startDate ELSE e.eventDate
               end == IF r.endDate # NoDate THEN r.endDate
                      ELSE IF e.endDate < start THEN start ELSE e.endDate
               text == IF r.eventTime # NoText THEN r.eventTime ELSE e.eventTime
           IN last'.result # "ok" <=> CreateOrderingRejects(start, end, text, now) ]_vars

\* C16: every persisted event has a non-empty bloodTypesNeeded list, also
\* after an updateEvent that carries an empty list.
C16_BloodTypesNonEmpty ==
    \A id \in DOMAIN events : Len(events[id].bloodTypesNeeded) > 0

\* C17: right after getEvent, getAllEvents or getMyEvents has returned an
\* event, its persisted status is cancelled if it was cancelled, and
\* otherwise the status derived from the clock, its dates and its time text
\* (so a stored status that differed has been overwritten).
C17_ReadsMaterializeStatus ==
    [][ last'.op \in {"getEvent", "getAllEvents", "getMyEvents"}
        => \A id \in last'.returned :
              /\ id \in DOMAIN events
              /\ id \in DOMAIN events'
              /\ events'[id].status =
                    IF events[id].status = "cancelled" THEN "cancelled"
                    ELSE ResolveStatus(events[id], now) ]_vars

\* C17 witness: a list read has returned an event created as upcoming and
\* left it stored as completed.
C17_Witness ==
    /\ last.op \in {"getAllEvents", "getMyEvents"}
    /\ \E id \in last.returned :
          /\ id \in DOMAIN events
          /\ events[id].status = "completed"
          /\ ResolveStatus(events[id], now) = "completed"

\* The attendee records held for event id in the collection evs.
RecordsHeld(evs, id) == IF id \in DOMAIN evs THEN evs[id].attendees ELSE << >>

\* C18: the number of attendee records held for an event never decreases:
\* an accepted registerForEvent appends one record, every other request
\* (cancelRegistration, cancelEvent, deleteEvent included) keeps each record
\* and its donor, changing at most its status.
C18_RosterNeverShrinks ==
    [][ \A id \in DOMAIN events :
           LET before == RecordsHeld(events, id)
               after == RecordsHeld(events', id)
           IN /\ Len(after) >= Len(before)
              /\ \A i \in 1..Len(before) : after[i].donor = before[i].donor
              /\ Len(after) =
                    IF last'.op = "registerForEvent" /\ last'.result = "ok" /\ last'.id = id
                    THEN Len(before) + 1 ELSE Len(before) ]_vars

\* C19: a lookup in the profile cache returns the cached summary only if
\* now - insertedAt < TTL (120000 ms); when now - insertedAt >= TTL, exactly
\* TTL included, the lookup is a miss and the old entry is gone (getProfile
\* then holds a summary inserted at the present instant).
C19_HitOnlyBelowTtl ==
    [][ LET key == CacheKey(Role(last'.user), last'.user)
        IN (last'.op = "getProfile" /\ key \in DOMAIN cache)
           => LET age == now - cache[key].timestamp
              IN /\ last'.result = "cached" => age < 120000
                 /\ age >= 120000
                    => (/\ last'.result = "computed"
                        /\ cache'[key].timestamp = now) ]_vars

\* An accepted profile-mutating request.
MutatesProfile(req) ==
    /\ req.op \in {"updateProfile", "uploadProfilePicture", "deleteProfilePicture"}
    /\ req.result = "ok"

\* C20: after an accepted updateProfile, picture upload or picture delete
\* the cache holds no entry for that user, and a getProfile of that user
\* served next computes its summary anew instead of returning the cached
\* one, also within the TTL.
C20_MutationInvalidatesCache ==
    [][ /\ MutatesProfile(last')
           => clearCachedProfileData(cache', last'.user) = cache'
        /\ (MutatesProfile(last) /\ last'.op = "getProfile" /\ last'.user = last.user)
           => last'.result = "computed" ]_vars

\* The parser has just returned a result for the text in the request.
Parsed == last.op = "parseEventTimeRange" /\ last.result.ok

\* C21: whenever parseEventTimeRange returns a result, startMinutes and
\* endMinutes both lie in [0, 1439].
C21_MinutesWithinDay ==
    Parsed => (/\ last.result.startMinutes \in 0..1439
               /\ last.result.endMinutes \in 0..1439)

\* A written time 'H[:MM] AM|PM' with H in 1..12 and MM in 0..59, the marker
\* in any letter case.
ValidWritten(seg) ==
    /\ seg.hours \in 1..12
    /\ seg.minutes = Absent \/ seg.minutes \in 0..59
    /\ seg.modifier \in {"AM", "Am", "aM", "am", "PM", "Pm", "pM", "pm"}

\* Its reference value: 12 AM is 0, 12 PM is 720, PM hours below 12 add 12,
\* missing minutes are 0.
RefMinutes(seg) ==
    LET h == IF seg.hours = 12 THEN 0 ELSE seg.hours
        pm == seg.modifier \in {"PM", "Pm", "pM", "pm"}
        m == IF seg.minutes = Absent THEN 0 ELSE seg.minutes
    IN (IF pm THEN h + 12 ELSE h) * 60 + m

\* C22: for every valid time 'H[:MM] AM|PM' the parser returns the reference
\* value, whatever blanks surround it and whatever the letter case of its
\* marker.
C22_ParserMatchesReference ==
    (/\ last.op = "parseEventTimeRange"
     /\ ValidWritten(events[last.id].eventTime[1])
     /\ ValidWritten(events[last.id].eventTime[2]))
    => (/\ last.result.ok
        /\ last.result.startMinutes = RefMinutes(events[last.id].eventTime[1])
        /\ last.result.endMinutes = RefMinutes(events[last.id].eventTime[2]))

\* C22 witness: " 12  aM" with blanks before and inside, read as minute 0.
C22_Witness ==
    /\ Parsed
    /\ events[last.id].eventTime[1] = Seg(12, Absent, "aM")
    /\ SubSeq(last.req.eventTime, 1, 3) = <<" ", "1", "2">>
    /\ last.result.startMinutes = 0

\* C23: a registerForEvent that loaded the event with exactly one free slot
\* and saves after another donor's registration has taken that slot still
\* succeeds, and the roster then holds more registered or attended records
\* than expectedCapacity.
C23_RaceOverrunsCapacity ==
    [][ \A u \in DOMAIN inflight :
           LET r == inflight[u]
           IN (/\ r.op = "registerForEvent"
               /\ r.loaded.currentAttendees = r.loaded.expectedCapacity - 1
               /\ ActiveCount(events[r.id].attendees) = events[r.id].expectedCapacity
               /\ u \notin DOMAIN inflight')
              => (/\ last' = Done("registerForEvent", u, r.id, NoReq, "ok")
                  /\ ActiveCount(events'[r.id].attendees)
                        > events'[r.id].expectedCapacity) ]_vars

\* C23 witness: both donors were registered on an event of capacity 1.
C23_Witness ==
    /\ last.op = "registerForEvent"
    /\ last.result = "ok"
    /\ last.id \in DOMAIN events
    /\ events[last.id].expectedCapacity = 1
    /\ \A d \in Donors : \E i \in RecordsOf(events[last.id], d) :
           events[last.id].attendees[i].status = "registered"

\* C30: under any interleaving of registerForEvent and cancelRegistration
\* requests on an event, once no request is pending the persisted
\* currentAttendees equals the number of registered or attended records,
\* and a request that has just reported success has its change in the
\* persisted roster.
C30_InterleavedCountMatches ==
    /\ (DOMAIN inflight = {}) =>
          \A id \in DOMAIN events :
             events[id].currentAttendees = ActiveCount(events[id].attendees)
    /\ (last.result = "ok" /\ last.op = "registerForEvent") =>
          \E i \in RecordsOf(events[last.id], last.user) :
             events[last.id].attendees[i].status = "registered"
    /\ (last.result = "ok" /\ last.op = "cancelRegistration") =>
          \E i \in RecordsOf(events[last.id], last.user) :
             events[last.id].attendees[i].status = "cancelled"

\* C24: a createEvent that ran its duplicate-title lookup before another
\* request inserted an event of the same title (ignoring case) is still
\* accepted: if that other event is upcoming or ongoing when the insert
\* happens, the store then holds two same-titled events whose status is
\* upcoming or ongoing.
C24_RaceAdmitsDuplicateTitle ==
    [][ \A u \in DOMAIN inflight :
           (/\ inflight[u].op = "createEvent"
            /\ u \notin DOMAIN inflight'
            /\ \E id \in DOMAIN events :
                  /\ SameTitleIgnoringCase(events[id].eventTitle,
                                           inflight[u].doc.eventTitle)
                  /\ CurrentStatus(events[id], now) \in {"upcoming", "ongoing"}
            /\ updateStatus(preSave(inflight[u].doc), now) \in {"upcoming", "ongoing"})
           => (/\ last'.op = "createEvent" /\ last'.result = "created"
               /\ last'.id \in DOMAIN events'
               /\ \E id \in DOMAIN events' :
                     /\ id # last'.id
                     /\ SameTitleIgnoringCase(events'[id].eventTitle,
                                              events'[last'.id].eventTitle)
                     /\ CurrentStatus(events'[id], now') \in {"upcoming", "ongoing"}
                     /\ CurrentStatus(events'[last'.id], now')
                           \in {"upcoming", "ongoing"}) ]_vars

\* C24 witness: two accepted events with the same title ignoring case, both
\* upcoming or ongoing now.
C24_Witness ==
    /\ last.op = "createEvent"
    /\ last.result = "created"
    /\ \E id \in DOMAIN events :
          /\ id # last.id
          /\ SameTitleIgnoringCase(events[id].eventTitle, events[last.id].eventTitle)
          /\ CurrentStatus(events[id], now) \in {"upcoming", "ongoing"}
          /\ CurrentStatus(events[last.id], now) \in {"upcoming", "ongoing"}

\* The moves of an attendee record's status.
StatusMoves ==
    { <<"registered", "attended">>, <<"registered", "cancelled">> }

\* C25: cancelRegistration by a donor whose record is attended leaves the
\* record attended and does not lower currentAttendees; and the status of
\* a record only ever moves from registered to attended or to cancelled
\* (a record appears as registered).
C25_AttendedStaysAttended ==
    [][ \A id \in DOMAIN events \cap DOMAIN events' :
          /\ \A i \in 1..Len(events[id].attendees) :
                \/ events'[id].attendees[i].status = events[id].attendees[i].status
                \/ <<events[id].attendees[i].status,
                      events'[id].attendees[i].status>> \in StatusMoves
          /\ \A i \in (Len(events[id].attendees) + 1)..Len(events'[id].attendees) :
                events'[id].attendees[i].status = "registered"
          /\ (/\ last'.op = "cancelRegistration"
              /\ last'.id = id
              /\ attendeeIndex(events[id], last'.user) # 0
              /\ events[id].attendees[attendeeIndex(events[id], last'.user)].status
                    = "attended")
             => (/\ events'[id].attendees[attendeeIndex(events[id], last'.user)].status
                      = "attended"
                 /\ events'[id].currentAttendees >= events[id].currentAttendees) ]_vars

\* C26: after any serial sequence of createEvent, updateEvent,
\* registerForEvent, cancelRegistration and cancelEvent, every persisted
\* event has currentAttendees <= expectedCapacity.
C26_CountWithinCapacity ==
    \A id \in DOMAIN events :
       events[id].currentAttendees <= events[id].expectedCapacity

\* C27: after any serial sequence of createEvent and updateEvent, no two
\* distinct events whose status as of now is upcoming or ongoing have the
\* same title ignoring case.
C27_ActiveTitlesDistinct ==
    \A a, b \in DOMAIN events :
       (/\ a # b
        /\ CurrentStatus(events[a], now) \in {"upcoming", "ongoing"}
        /\ CurrentStatus(events[b], now) \in {"upcoming", "ongoing"})
       => ~SameTitleIgnoringCase(events[a].eventTitle, events[b].eventTitle)

\* C28: in every reachable state an event whose status is cancelled has no
\* attendee record with status registered.
C28_CancelledHasNoRegistered ==
    \A id \in DOMAIN events :
       events[id].status = "cancelled"
       => \A i \in 1..Len(events[id].attendees) :
             events[id].attendees[i].status # "registered"

\* C29: with a clock that never goes back, an event whose persisted status
\* is completed keeps that status in every later state in which it is
\* persisted, whatever read, updateEvent, cancelEvent, registerForEvent or
\* cancelRegistration is served: updates and cancellation are rejected and
\* a re-evaluation of the unchanged dates gives completed again.
C29_CompletedIsAbsorbing ==
    [][ \A id \in DOMAIN events :
            (events[id].status = "completed" /\ id \in DOMAIN events')
                => (/\ events'[id].status = "completed"
                    /\ (last'.op \in {"updateEvent", "cancelEvent"} /\ last'.id = id)
                          => (last'.result # "ok" /\ events'[id] = events[id])) ]_vars

\* C29 witness: the owner's cancellation of a completed event was rejected
\* and the event is still completed.
C29_Witness ==
    /\ last.op = "cancelEvent"
    /\ last.result = "completed"
    /\ last.id \in DOMAIN events
    /\ events[last.id].status = "completed"
    /\ ResolveStatus(events[last.id], now) = "completed"

====
